---- MODULE Spec2Model ----
(***************************************************************************)
(* Model of the OpenAL audio output stream (OpenALStream.cpp) and of the   *)
(* DPL2 surround decoder front end (SurroundDecoder.cpp).                  *)
(*                                                                         *)
(* Spec      the stream's life cycle and buffer pools: Start and Stop on   *)
(*           the caller thread, SoundLoop on the streaming thread, and the *)
(*           OpenAL sources they drive.                                    *)
(* MuteSpec  the same loop with Clear on the caller thread.                *)
(* VolSpec   the same loop with SetVolume on the caller thread.            *)
(* InitSpec  the same with the set-up of each source taken in the steps    *)
(*           SetVolume can come between.                                   *)
(* FairSpec  Start, Stop and the loop, with the fairness the scheduler     *)
(*           gives the two threads.                                        *)
(* MixSpec, FormatSpec, PlaySpec, WaitSpec                                 *)
(*           the loop of Spec with, in turn, the mixer's results, the      *)
(*           data format and its rejection, the play commands, and the     *)
(*           wait for a free buffer recorded.                              *)
(* DecSpec   the surround decoder's FIFO under its operations.             *)
(* RemapSpec the decoder's requests with the FIFO's samples recorded.      *)
(* CapSpec   the decoder's requests at the sizes a stream uses.            *)
(* ConvSpec  the conversion of a surround sample to 16 bits.               *)
(* LfeSpec   the filling of a surround buffer, frame by frame.             *)
(* RateSpec  the frames asked of the mixer per buffer, at set-up and after *)
(*           a change of a source's sample rate.                           *)
(***************************************************************************)
EXTENDS Integers, Sequences, FiniteSets, TLC

(* Size of each source's buffer pool (OAL_BUFFERS). *)
OAL_BUFFERS == 3

(* Number of sources: DMA, streaming, WiiMote. *)
OAL_NUM_SOURCES == 3

Sources == 0 .. (OAL_NUM_SOURCES - 1)
Slots == 0 .. (OAL_BUFFERS - 1)

(* Volumes the caller sets, in percent. *)
Volumes == {50, 100}

(* What alGetError can return: no error, the rejected format, any other. *)
ALErrors == {"AL_NO_ERROR", "AL_INVALID_ENUM", "AL_INVALID_VALUE"}

(* What a mixer call returns, relative to the frames asked for. *)
MixResults == {"none", "partial", "full"}

(* Samples per decoded frame. *)
SURROUND_CHANNELS == 6

(* Largest decode block, in frames, a decoder is constructed with. *)
MaxBlockSize == 4

(* Largest number of frames asked of the decoder in one request. *)
MaxOutputFrames == 6

(* Most frames a PutFrames() outside a request lets the FIFO hold. *)
MaxFifoFrames == 12

BlockSizes == 1 .. MaxBlockSize

(* The limits of a 16-bit sample. *)
SHRT_MAX == 32767
SHRT_MIN == -32768

(* A sample times 1 << 15 is held as a whole number of SampleUnit-ths. *)
SampleUnit == 2

(* How far the samples tried reach either side of 0 and of each limit. *)
SampleWindow == 6

(* The samples tried, already multiplied by 1 << 15: around 0, around the  *)
(* two limits, and 2.5 and -3.0.                                           *)
ScaledSamples ==
  (-SampleWindow .. SampleWindow)
    \cup { SHRT_MAX * SampleUnit + d : d \in -SampleWindow .. SampleWindow }
    \cup { SHRT_MIN * SampleUnit + d : d \in -SampleWindow .. SampleWindow }
    \cup { 5 * 16384 * SampleUnit, -3 * 32768 * SampleUnit }

(* Capacity, in frames, of the loop's fixed conversion arrays             *)
(* (OAL_MAX_FRAMES).                                                       *)
OAL_MAX_FRAMES == 4096

(* Fewest frames per buffer the surround decoder is given. *)
MinSurroundFrames == 240

(* Largest latency configured, in milliseconds. *)
MaxLatency == 1000

(* Latencies configured: none, below and above the 10 ms the loop tests   *)
(* for, and one long enough for the limit on the frames to matter.         *)
Latencies == {0, 5, 20, MaxLatency}

(* Sample rates the mixer reports for a source. *)
Rates == {6000, 32000, 48000}

(* Most frames a surround mix returns where the frames are recorded. *)
MaxMixFrames == 2

(* Largest and smallest int of the build. *)
INT_MAX == 2147483647
INT_MIN == -INT_MAX - 1

(* The samples of a recorded mix, as whole numbers of                      *)
(* 1 / (32768 * SampleUnit): -3.0, 2.5 and two small ones.  1.0, which the *)
(* fixed-point conversion neither clamps nor can represent, is not tried.  *)
LfeSamples == { -3 * 32768 * SampleUnit, -1 }
OtherSamples == { 1, 5 * 16384 * SampleUnit }

(* Most frames decoded in a behaviour that records the samples. *)
MaxDecodedFrames == 12

(* A decoded sample: the frame it belongs to, by its place in decode       *)
(* order, and its channel in the decoder's order.                          *)
Samples == (0 .. (MaxDecodedFrames - 1)) \X (0 .. (SURROUND_CHANNELS - 1))

(* Samples the decoder's FIFO has room for. *)
FifoCapacity == 32768

(* Block sizes and request sizes of the order a stream uses; a request of  *)
(* the largest size fits the FIFO, as does a block of the largest size.    *)
StreamBlockSizes == {512, 1024, 2048}
StreamRequests == {240, 512, 1000, 2048, 4096}

VARIABLES
  caller_pc,            \* where the caller thread is
  start_result,         \* what the last Start() returned, and why
  m_run_thread,         \* Common::Flag
  m_thread,             \* std::thread: "none", "started", "joined"
  device_open,          \* an ALCdevice is open
  context_current,      \* an ALCcontext exists and is current
  m_volume,             \* percent
  m_muted,
  mute_stopped,         \* the last Clear() was Clear(true) and stopped a playing source
  m_sources,            \* source names, 0 = none
  al_gain,              \* AL_GAIN of each source, percent
  al_state,             \* AL_SOURCE_STATE of each source
  al_queue,             \* the buffers queued on each source, oldest first
  al_exists,            \* the source and its buffers are generated
  loop_pc,              \* where the streaming thread is
  nsource,              \* the loop index of the init and stereo loops
  use_surround,
  using_HLE,
  next_buffer,
  num_buffers_queued,
  underrun_start,       \* cursor when the current run of empty mixes began, -1 = none
  rendered,             \* what the mixer returned in the last iteration, where recorded
  buffering_error,      \* what the last iteration's "buffering data" check read, where recorded
  played,               \* the source the last iteration issued alSourcePlay on, where recorded
  num_buffers_processed, \* what the last iteration read of AL_BUFFERS_PROCESSED, where recorded
  float32_capable,      \* AL_EXT_float32 is present, where recorded
  fixed32_capable,      \* the renderer is an X-Fi, where recorded
  dec_pc,               \* where the decoder's user is in a request
  m_frame_block_size,   \* frames per decode block, 0 before construction
  m_decoded_fifo,       \* m_decoded_fifo.size(), in samples
  output_frames,        \* the frames the current request asks for
  frames_returned,      \* what the query of the current request returned
  fifo_underflow,       \* pop_front() was called on an empty FIFO
  num_frames_in,        \* the argument of the last PutFrames()
  decode_calls,         \* the decode() calls the last PutFrames() made
  fifo_samples,         \* the samples in the FIFO, oldest first, where recorded
  frames_decoded,       \* frames decode() has produced, where recorded
  frames_consumed,      \* frames that have left the FIFO, where recorded
  received,             \* what the last ReceiveFrames() wrote to out, where recorded
  fs_state,             \* m_fsdecoder: "flushed", or "primed" by a decode()
  clears_in_row,        \* Clear() calls since the last other call, up to 2
  conv_pc,              \* where the conversion of a sample is
  dpl2,                 \* a sample of the surround mix, in SampleUnit-ths
  surround_short,       \* the 16-bit sample made from it
  mix_pc,               \* where the filling of a surround buffer is
  dpl2_frames,          \* the frames MixSurround() rendered, sample by sample
  buffer_data,          \* the samples handed to alBufferData
  fpb_pc,               \* whether frames_per_buffer has been computed
  iLatency,             \* SConfig::iLatency
  frequency,            \* the sample rate stored for each source
  frames_per_buffer,    \* the frames asked of the mixer for each source
  init_pc,              \* where a pass of the set-up loop is, where it is taken in steps
  volume_read           \* the m_volume that pass has read for alSourcef, -1 = none

vars == << caller_pc, start_result, m_run_thread, m_thread, device_open,
           context_current, m_volume, m_muted, mute_stopped, m_sources,
           al_gain, al_state, al_queue, al_exists, loop_pc, nsource,
           use_surround, using_HLE, next_buffer,
           num_buffers_queued, underrun_start, rendered, buffering_error,
           played, num_buffers_processed, float32_capable, fixed32_capable,
           dec_pc, m_frame_block_size,
           m_decoded_fifo, output_frames, frames_returned, fifo_underflow,
           num_frames_in, decode_calls, fifo_samples, frames_decoded,
           frames_consumed, received, fs_state, clears_in_row, conv_pc,
           dpl2, surround_short, mix_pc, dpl2_frames, buffer_data,
           fpb_pc, iLatency, frequency, frames_per_buffer, init_pc,
           volume_read >>

caller_vars == << caller_pc, start_result, m_run_thread,
                  m_thread, device_open, context_current, m_volume, m_muted,
                  mute_stopped >>

loop_locals == << use_surround, using_HLE, next_buffer,
                  num_buffers_queued, underrun_start, rendered,
                  buffering_error, played, num_buffers_processed,
                  float32_capable, fixed32_capable >>

dec_vars == << dec_pc, m_frame_block_size, m_decoded_fifo, output_frames,
              frames_returned, fifo_underflow, num_frames_in, decode_calls,
              fifo_samples, frames_decoded, frames_consumed, received,
              fs_state, clears_in_row >>

frame_vars == << mix_pc, dpl2_frames, buffer_data >>

rate_vars == << fpb_pc, iLatency, frequency, frames_per_buffer >>

init_vars == << init_pc, volume_read >>

conv_vars == << conv_pc, dpl2, surround_short, frame_vars, rate_vars,
               init_vars >>

remap_vars == << fifo_samples, frames_decoded, frames_consumed, received >>

put_vars == << num_frames_in, decode_calls >>

stream_vars == << caller_vars, loop_locals, m_sources, al_gain, al_state,
                 al_queue, al_exists, loop_pc, nsource >>

Zeroes == [i \in Sources |-> 0]

Joinable == m_thread = "started"

ThreadFinished == m_thread = "started" /\ loop_pc = "done"

TypeOK ==
  /\ caller_pc \in {"idle", "stop_join", "stop_teardown", "stop_threw"}
  /\ start_result \in {"none", "ok", "no_enumeration", "no_device", "no_context"}
  /\ m_run_thread \in BOOLEAN
  /\ m_thread \in {"none", "started", "joined"}
  /\ device_open \in BOOLEAN
  /\ context_current \in BOOLEAN
  /\ m_volume \in Volumes
  /\ m_muted \in BOOLEAN
  /\ mute_stopped \in BOOLEAN
  /\ m_sources \in [Sources -> 0 .. OAL_NUM_SOURCES]
  /\ al_gain \in [Sources -> Volumes]
  /\ al_state \in [Sources -> {"AL_INITIAL", "AL_PLAYING", "AL_STOPPED"}]
  /\ al_queue \in [Sources -> Seq(Slots)]
  /\ al_exists \in [Sources -> BOOLEAN]
  /\ loop_pc \in {"idle", "begin", "init", "top", "body", "done"}
  /\ nsource \in Sources
  /\ use_surround \in BOOLEAN
  /\ using_HLE \in BOOLEAN
  /\ next_buffer \in [Sources -> Int]
  /\ num_buffers_queued \in [Sources -> Int]
  /\ underrun_start \in [Sources -> -1 .. (OAL_BUFFERS - 1)]
  /\ rendered \in MixResults \cup {"unmixed"}
  /\ buffering_error \in ALErrors \cup {"unchecked"}
  /\ played \in Sources \cup {-1}
  /\ num_buffers_processed \in -1 .. OAL_BUFFERS
  /\ float32_capable \in BOOLEAN
  /\ fixed32_capable \in BOOLEAN
  /\ dec_pc \in {"unbuilt", "idle", "queried", "put"}
  /\ m_frame_block_size \in (0 .. MaxBlockSize) \cup StreamBlockSizes
  /\ m_decoded_fifo \in Nat
  /\ output_frames \in (0 .. MaxOutputFrames) \cup StreamRequests
  /\ frames_returned \in Nat
  /\ fifo_underflow \in BOOLEAN
  /\ num_frames_in \in Nat
  /\ decode_calls \in Nat
  /\ fifo_samples \in Seq(Samples)
  /\ frames_decoded \in 0 .. MaxDecodedFrames
  /\ frames_consumed \in 0 .. MaxDecodedFrames
  /\ received \in Seq(Samples)
  /\ fs_state \in {"flushed", "primed"}
  /\ clears_in_row \in 0 .. 2
  /\ conv_pc \in {"idle", "mixed", "converted"}
  /\ dpl2 \in ScaledSamples \cup {0}
  /\ surround_short \in SHRT_MIN .. SHRT_MAX
  /\ mix_pc \in {"start", "idle", "mixed", "zeroed", "handed"}
  /\ dpl2_frames \in Seq(Int)
  /\ buffer_data \in Seq(Int)
  /\ fpb_pc \in {"unset", "set"}
  /\ iLatency \in Latencies
  /\ frequency \in [Sources -> Rates \cup {0}]
  /\ frames_per_buffer \in [Sources -> Nat]
  /\ init_pc \in {"gen", "read", "gain"}
  /\ volume_read \in Volumes \cup {-1}

Init ==
  /\ caller_pc = "idle"
  /\ start_result = "none"
  /\ m_run_thread = FALSE
  /\ m_thread = "none"
  /\ device_open = FALSE
  /\ context_current = FALSE
  /\ m_volume = 100
  /\ m_muted = FALSE
  /\ mute_stopped = FALSE
  /\ m_sources = Zeroes
  /\ al_gain = [i \in Sources |-> 100]
  /\ al_state = [i \in Sources |-> "AL_INITIAL"]
  /\ al_queue = [i \in Sources |-> << >>]
  /\ al_exists = [i \in Sources |-> FALSE]
  /\ loop_pc = "idle"
  /\ nsource = 0
  /\ use_surround = FALSE
  /\ using_HLE = FALSE
  /\ next_buffer = Zeroes
  /\ num_buffers_queued = Zeroes
  /\ underrun_start = [i \in Sources |-> -1]
  /\ rendered = "unmixed"
  /\ buffering_error = "unchecked"
  /\ played = -1
  /\ num_buffers_processed = -1
  /\ float32_capable = FALSE
  /\ fixed32_capable = FALSE
  /\ dec_pc = "unbuilt"
  /\ m_frame_block_size = 0
  /\ m_decoded_fifo = 0
  /\ output_frames = 0
  /\ frames_returned = 0
  /\ fifo_underflow = FALSE
  /\ num_frames_in = 0
  /\ decode_calls = 0
  /\ fifo_samples = << >>
  /\ frames_decoded = 0
  /\ frames_consumed = 0
  /\ received = << >>
  /\ fs_state = "flushed"
  /\ clears_in_row = 0
  /\ conv_pc = "idle"
  /\ dpl2 = 0
  /\ surround_short = 0
  /\ mix_pc = "start"
  /\ dpl2_frames = << >>
  /\ buffer_data = << >>
  /\ fpb_pc = "unset"
  /\ iLatency = 0
  /\ frequency = Zeroes
  /\ frames_per_buffer = Zeroes
  /\ init_pc = "gen"
  /\ volume_read = -1

(***************************************************************************)
(* The OpenAL calls the stream makes, by their effect on a source.         *)
(***************************************************************************)

(* alSourcePlay / alSourcePlayv on one source with queue q: a source with  *)
(* nothing to play goes straight to stopped.                               *)
ALSourcePlay(st, q) == IF q = << >> THEN "AL_STOPPED" ELSE "AL_PLAYING"

(* alSourceStop / alSourceStopv on one source: an initial source stays so. *)
ALSourceStop(st) == IF st = "AL_PLAYING" THEN "AL_STOPPED" ELSE st

(* The vector calls act only when every name they are given is a source. *)
AllSourcesValid == \A i \in Sources : m_sources[i] # 0 /\ al_exists[i]

(* AL_BUFFERS_PROCESSED: all of a stopped source's buffers, none of an     *)
(* initial source's, and any number short of the one playing otherwise.    *)
Processed(i) ==
  IF al_state[i] = "AL_STOPPED" THEN {Len(al_queue[i])}
  ELSE IF al_state[i] = "AL_INITIAL" \/ al_queue[i] = << >> THEN {0}
  ELSE 0 .. (Len(al_queue[i]) - 1)

(* alSourceUnqueueBuffers(n): the n oldest buffers leave the queue. *)
Unqueue(q, n) == SubSeq(q, n + 1, Len(q))

(***************************************************************************)
(* The caller thread.                                                      *)
(***************************************************************************)

(* Start(): which return is taken. *)
StartResult(enumeration, device, context) ==
  IF ~enumeration THEN "no_enumeration"
  ELSE IF ~device THEN "no_device"
  ELSE IF ~context THEN "no_context"
  ELSE "ok"

(* Variant: the context-failure return forgets alcCloseDevice. *)
DeviceOpenAfterStart_leak(enumeration, device, context) ==
  enumeration /\ device

(* Start(): whether the device it opened is still open when it returns. *)
DeviceOpenAfterStart(enumeration, device, context) ==
  StartResult(enumeration, device, context) = "ok"

Start ==
  /\ caller_pc = "idle"
  /\ ~Joinable
  /\ ~device_open
  /\ \E enumeration \in BOOLEAN, device \in BOOLEAN, context \in BOOLEAN :
       LET r == StartResult(enumeration, device, context) IN
       /\ start_result' = r
       /\ device_open' = DeviceOpenAfterStart(enumeration, device, context)
       /\ IF r = "ok"
          THEN /\ context_current' = TRUE
               /\ m_run_thread' = TRUE
               /\ m_thread' = "started"
               /\ loop_pc' = "begin"
          ELSE UNCHANGED << context_current, m_run_thread, m_thread, loop_pc >>
  /\ UNCHANGED << caller_pc, m_volume, m_muted, mute_stopped, m_sources,
                  al_gain, al_state, al_queue, al_exists, nsource >>
  /\ UNCHANGED loop_locals
  /\ UNCHANGED dec_vars
  /\ UNCHANGED conv_vars

(* Variant: Stop() joins without clearing the flag. *)
StopRunFlag_kept == m_run_thread

(* Stop(): the value m_run_thread.Clear() leaves in the flag. *)
StopRunFlag == FALSE

(* Variant: Stop() goes on to the teardown without joining the thread. *)
StopNextStep_nojoin == "stop_teardown"

(* Stop(): what follows the clearing of the flag, m_thread.join(). *)
StopNextStep == "stop_join"

(* Stop() up to the join.  The event it sets has no waiter in SoundLoop,  *)
(* which sleeps instead, so the event is not part of the state.            *)
StopBegin ==
  /\ caller_pc = "idle"
  /\ m_run_thread' = StopRunFlag
  /\ caller_pc' = StopNextStep
  /\ UNCHANGED << start_result, m_thread, device_open, context_current,
                  m_volume, m_muted, mute_stopped, m_sources, al_gain, al_state, al_queue,
                  al_exists, loop_pc, nsource >>
  /\ UNCHANGED loop_locals
  /\ UNCHANGED dec_vars
  /\ UNCHANGED conv_vars

(* m_thread.join() returns once the streaming thread has left SoundLoop. *)
StopJoin ==
  /\ caller_pc = "stop_join"
  /\ ThreadFinished
  /\ m_thread' = "joined"
  /\ loop_pc' = "idle"
  /\ caller_pc' = "stop_teardown"
  /\ UNCHANGED << start_result, m_run_thread, device_open,
                  context_current, m_volume, m_muted, mute_stopped, m_sources, al_gain,
                  al_state, al_queue, al_exists, nsource >>
  /\ UNCHANGED loop_locals
  /\ UNCHANGED dec_vars
  /\ UNCHANGED conv_vars

(* m_thread.join() on a thread that is not joinable throws                 *)
(* std::system_error, which leaves Stop() by exception.                    *)
StopJoinThrows ==
  /\ caller_pc = "stop_join"
  /\ ~Joinable
  /\ caller_pc' = "stop_threw"
  /\ UNCHANGED << start_result, m_run_thread, m_thread,
                  device_open, context_current, m_volume, m_muted, mute_stopped, m_sources,
                  al_gain, al_state, al_queue, al_exists, loop_pc, nsource >>
  /\ UNCHANGED loop_locals
  /\ UNCHANGED dec_vars
  /\ UNCHANGED conv_vars

(* Stop() after the join: sources and buffers deleted, context destroyed,  *)
(* device closed.                                                          *)
StopTeardown ==
  /\ caller_pc = "stop_teardown"
  /\ m_sources' = Zeroes
  /\ al_exists' = [i \in Sources |-> FALSE]
  /\ al_state' = [i \in Sources |-> "AL_INITIAL"]
  /\ al_queue' = [i \in Sources |-> << >>]
  /\ al_gain' = [i \in Sources |-> 100]
  /\ context_current' = FALSE
  /\ device_open' = FALSE
  /\ caller_pc' = "idle"
  /\ mute_stopped' = FALSE
  /\ UNCHANGED << start_result, m_run_thread, m_thread,
                  m_volume, m_muted, loop_pc, nsource >>
  /\ UNCHANGED loop_locals
  /\ UNCHANGED dec_vars
  /\ UNCHANGED conv_vars

(* Variant: SetVolume() only stores the volume. *)
GainAfterSetVolume_stored(i, volume) == al_gain[i]

(* SetVolume(): the gain each source has afterwards. *)
GainAfterSetVolume(i, volume) ==
  IF m_sources[i] # 0 /\ al_exists[i] THEN volume ELSE al_gain[i]

SetVolume ==
  /\ caller_pc = "idle"
  /\ \E volume \in Volumes :
       /\ m_volume' = volume
       /\ al_gain' = [i \in Sources |-> GainAfterSetVolume(i, volume)]
  /\ UNCHANGED << caller_pc, start_result, m_run_thread,
                  m_thread, device_open, context_current, m_muted, mute_stopped, m_sources,
                  al_state, al_queue, al_exists, loop_pc, nsource >>
  /\ UNCHANGED loop_locals
  /\ UNCHANGED dec_vars
  /\ UNCHANGED conv_vars

(* Clear(): the state each source has afterwards. *)
StateAfterClear(i, mute) ==
  IF ~AllSourcesValid THEN al_state[i]
  ELSE IF mute THEN ALSourceStop(al_state[i])
  ELSE ALSourcePlay(al_state[i], al_queue[i])

Clear ==
  /\ caller_pc = "idle"
  /\ \E mute \in BOOLEAN :
       /\ m_muted' = mute
       /\ mute_stopped' =
            (/\ mute
             /\ AllSourcesValid
             /\ \E i \in Sources : al_state[i] = "AL_PLAYING")
       /\ al_state' = [i \in Sources |-> StateAfterClear(i, mute)]
  /\ UNCHANGED << caller_pc, start_result, m_run_thread,
                  m_thread, device_open, context_current, m_volume, m_sources,
                  al_gain, al_queue, al_exists, loop_pc, nsource >>
  /\ UNCHANGED loop_locals
  /\ UNCHANGED dec_vars
  /\ UNCHANGED conv_vars

(***************************************************************************)
(* The streaming thread: SoundLoop().                                      *)
(***************************************************************************)

(* The locals of SoundLoop before it runs and after it has returned. *)
ParkLocals ==
  /\ use_surround' = FALSE
  /\ using_HLE' = FALSE
  /\ next_buffer' = Zeroes
  /\ num_buffers_queued' = Zeroes
  /\ underrun_start' = [i \in Sources |-> -1]
  /\ rendered' = "unmixed"
  /\ buffering_error' = "unchecked"
  /\ played' = -1
  /\ num_buffers_processed' = -1
  /\ float32_capable' = FALSE
  /\ fixed32_capable' = FALSE

(* Capabilities and configuration are read once.  The two format          *)
(* capabilities choose the format of the data handed to alBufferData and   *)
(* nothing else; they are recorded where track has "format".               *)
ThreadBeginStep(track) ==
  /\ loop_pc = "begin"
  /\ \E surround \in BOOLEAN, hle \in BOOLEAN :
       /\ use_surround' = surround
       /\ using_HLE' = hle
  /\ IF "format" \in track
     THEN \E float32 \in BOOLEAN, fixed32 \in BOOLEAN :
            /\ float32_capable' = float32
            /\ fixed32_capable' = fixed32
     ELSE UNCHANGED << float32_capable, fixed32_capable >>
  /\ loop_pc' = "init"
  /\ nsource' = 0
  /\ UNCHANGED << next_buffer, num_buffers_queued, underrun_start, rendered,
                  buffering_error, played, num_buffers_processed >>
  /\ UNCHANGED caller_vars
  /\ UNCHANGED << m_sources, al_gain, al_state, al_queue, al_exists >>
  /\ UNCHANGED dec_vars
  /\ UNCHANGED conv_vars

ThreadBegin == ThreadBeginStep({})

(* The same with the format capabilities recorded. *)
ThreadBeginFormats == ThreadBeginStep({"format"})

(* One pass of the set-up loop: buffers and a source are generated and the *)
(* source takes the stored volume.                                         *)
ThreadInitSource ==
  /\ loop_pc = "init"
  /\ m_sources' = [m_sources EXCEPT ![nsource] = nsource + 1]
  /\ al_exists' = [al_exists EXCEPT ![nsource] = TRUE]
  /\ al_gain' = [al_gain EXCEPT ![nsource] = m_volume]
  /\ IF nsource = OAL_NUM_SOURCES - 1
     THEN loop_pc' = "top" /\ nsource' = 0
     ELSE loop_pc' = "init" /\ nsource' = nsource + 1
  /\ UNCHANGED << al_state, al_queue >>
  /\ UNCHANGED loop_locals
  /\ UNCHANGED caller_vars
  /\ UNCHANGED dec_vars
  /\ UNCHANGED conv_vars

(* What the steps of a pass of the set-up loop leave alone. *)
InitStepFrame ==
  /\ UNCHANGED << al_state, al_queue >>
  /\ UNCHANGED loop_locals
  /\ UNCHANGED caller_vars
  /\ UNCHANGED dec_vars
  /\ UNCHANGED << conv_pc, dpl2, surround_short >>
  /\ UNCHANGED frame_vars
  /\ UNCHANGED rate_vars

(* The same pass in the steps the caller's thread can come between.  The  *)
(* source is generated by alGenSources, with the gain of a new source.     *)
InitGenSource ==
  /\ loop_pc = "init"
  /\ init_pc = "gen"
  /\ m_sources' = [m_sources EXCEPT ![nsource] = nsource + 1]
  /\ al_exists' = [al_exists EXCEPT ![nsource] = TRUE]
  /\ init_pc' = "read"
  /\ UNCHANGED << al_gain, volume_read, loop_pc, nsource >>
  /\ InitStepFrame

(* m_volume is read as the argument of alSourcef. *)
InitReadVolume ==
  /\ loop_pc = "init"
  /\ init_pc = "read"
  /\ volume_read' = m_volume
  /\ init_pc' = "gain"
  /\ UNCHANGED << m_sources, al_exists, al_gain, loop_pc, nsource >>
  /\ InitStepFrame

(* alSourcef(m_sources[i], AL_GAIN, ...) is called with the value read. *)
InitSetGain ==
  /\ loop_pc = "init"
  /\ init_pc = "gain"
  /\ al_gain' = [al_gain EXCEPT ![nsource] = volume_read]
  /\ volume_read' = -1
  /\ init_pc' = "gen"
  /\ IF nsource = OAL_NUM_SOURCES - 1
     THEN loop_pc' = "top" /\ nsource' = 0
     ELSE loop_pc' = "init" /\ nsource' = nsource + 1
  /\ UNCHANGED << m_sources, al_exists >>
  /\ InitStepFrame

(* Variant: the loop also gives up once a mix has come up short. *)
LoopCond_giveup == m_run_thread /\ \A i \in Sources : underrun_start[i] = -1

(* while (m_run_thread.IsSet()) *)
LoopCond == m_run_thread

LoopTop ==
  /\ loop_pc = "top"
  /\ IF LoopCond
     THEN /\ loop_pc' = "body"
          /\ UNCHANGED loop_locals
     ELSE /\ loop_pc' = "done"
          /\ ParkLocals
  /\ nsource' = 0
  /\ UNCHANGED caller_vars
  /\ UNCHANGED << m_sources, al_gain, al_state, al_queue, al_exists >>
  /\ UNCHANGED dec_vars
  /\ UNCHANGED conv_vars

(* Variant: the loop never waits for a free buffer. *)
PoolFull_nowait(i, processed) == FALSE

(* "Block until we have a free buffer": the pool is all queued and the     *)
(* source reports none processed.                                          *)
PoolFull(i, processed) ==
  num_buffers_queued[i] = OAL_BUFFERS /\ processed = 0

(* The surround path skips the iteration when the mixer rendered fewer     *)
(* frames than asked for.                                                  *)
SurroundUnderrun(mix) == mix # "full"

(* The stereo path skips the iteration when the mixer rendered nothing. *)
StereoUnderrun(mix) == mix = "none"

(* The cursor after an iteration that queued a buffer. *)
NextCursor(i) == (next_buffer[i] + 1) % OAL_BUFFERS

(* Variant: the cursor moves on before the shortfall is noticed. *)
UnderrunCursor_advanced(i) == NextCursor(i)

(* The cursor after an iteration that was skipped for lack of frames. *)
UnderrunCursor(i) == next_buffer[i]

(* use_surround after the "buffering data" error check. *)
SurroundAfterBufferData(err) == err # "AL_INVALID_ENUM"

(* What the mixer can return for a source: without HLE the WiiMote source  *)
(* is never mixed and rendered_frames stays 0.                             *)
Mixed(i) == IF i = 2 /\ ~using_HLE THEN {"none"} ELSE MixResults

(* What an iteration records of itself.  track names what is recorded:    *)
(* "underrun" the runs of short mixes, "mix" what the mixer returned       *)
(* ("unmixed" when the iteration did not call it), "format" what the       *)
(* "buffering data" check read ("unchecked" when the iteration did not     *)
(* make it), "play" the source alSourcePlay was called on (-1 for none),     *)
(* "wait" what AL_BUFFERS_PROCESSED read (-1 when the iteration did not    *)
(* read it).                                                               *)
RecordIteration(track, processed, mix, err, play) ==
  /\ rendered' = IF "mix" \in track THEN mix ELSE rendered
  /\ buffering_error' = IF "format" \in track THEN err ELSE buffering_error
  /\ played' = IF "play" \in track THEN play ELSE played
  /\ num_buffers_processed' =
       IF "wait" \in track THEN processed ELSE num_buffers_processed

(* if (state != AL_PLAYING) after the queue: the source played, if any. *)
PlayIssued(i) == IF al_state[i] # "AL_PLAYING" THEN i ELSE -1

(* Variant: a source found not playing is left as it is. *)
StateAfterQueue_left(i, q) == al_state[i]

(* The state of a source after the iteration that queued q on it. *)
StateAfterQueue(i, q) ==
  IF PlayIssued(i) = i THEN ALSourcePlay(al_state[i], q) ELSE al_state[i]

(* The sleep of an iteration that found no free buffer. *)
SleepStep(i) ==
  UNCHANGED << al_queue, al_state, num_buffers_queued, next_buffer,
               underrun_start >>

(* Processed buffers are unqueued, the mixer comes up short. *)
UnderrunStep(i, processed, track) ==
  /\ al_queue' = [al_queue EXCEPT ![i] = Unqueue(@, processed)]
  /\ num_buffers_queued' = [num_buffers_queued EXCEPT ![i] = @ - processed]
  /\ next_buffer' = [next_buffer EXCEPT ![i] = UnderrunCursor(i)]
  /\ underrun_start' =
       [underrun_start EXCEPT
          ![i] = IF "underrun" \in track /\ @ = -1 THEN next_buffer[i] ELSE @]
  /\ UNCHANGED al_state

(* Processed buffers are unqueued, the buffer at the cursor is filled and  *)
(* queued, and a source found not playing is played.                       *)
QueueStep(i, processed) ==
  /\ al_queue' =
       [al_queue EXCEPT ![i] = Append(Unqueue(@, processed), next_buffer[i])]
  /\ num_buffers_queued' =
       [num_buffers_queued EXCEPT ![i] = (@ - processed) + 1]
  /\ next_buffer' = [next_buffer EXCEPT ![i] = NextCursor(i)]
  /\ al_state' = [al_state EXCEPT ![i] = StateAfterQueue(i, al_queue'[i])]
  /\ underrun_start' = [underrun_start EXCEPT ![i] = -1]

(* The mixer's rate for the source is no longer the one stored (changed):  *)
(* the source is stopped, its buffers unbound and the queue bookkeeping    *)
(* started over.                                                           *)
ResetStep(i) ==
  /\ al_state' = [al_state EXCEPT ![i] = ALSourceStop(@)]
  /\ al_queue' = [al_queue EXCEPT ![i] = << >>]
  /\ num_buffers_queued' = [num_buffers_queued EXCEPT ![i] = 0]
  /\ next_buffer' = [next_buffer EXCEPT ![i] = 0]
  /\ underrun_start' = [underrun_start EXCEPT ![i] = -1]

(* One iteration of the surround branch, on source 0. *)
SurroundIteration(track) ==
  /\ loop_pc = "body"
  /\ use_surround
  /\ \E processed \in Processed(0), mix \in MixResults, err \in ALErrors :
       IF PoolFull(0, processed)
       THEN /\ SleepStep(0)
            /\ RecordIteration(track, processed, "unmixed", "unchecked", -1)
            /\ UNCHANGED use_surround
       ELSE IF SurroundUnderrun(mix)
       THEN /\ UnderrunStep(0, processed, track)
            /\ RecordIteration(track, processed, mix, "unchecked", -1)
            /\ UNCHANGED use_surround
       ELSE /\ QueueStep(0, processed)
            /\ RecordIteration(track, processed, mix, err, PlayIssued(0))
            /\ use_surround' = SurroundAfterBufferData(err)
  /\ loop_pc' = "top"
  /\ UNCHANGED << using_HLE, nsource, float32_capable, fixed32_capable >>
  /\ UNCHANGED caller_vars
  /\ UNCHANGED << m_sources, al_gain, al_exists >>
  /\ UNCHANGED dec_vars
  /\ UNCHANGED conv_vars

(* One pass of the stereo branch's loop over the sources. *)
StereoIteration(track) ==
  /\ loop_pc = "body"
  /\ ~use_surround
  /\ \E changed \in BOOLEAN, processed \in Processed(nsource),
        mix \in Mixed(nsource) :
       IF changed
       THEN /\ ResetStep(nsource)
            /\ RecordIteration(track, -1, "unmixed", "unchecked", -1)
       ELSE IF PoolFull(nsource, processed)
       THEN /\ SleepStep(nsource)
            /\ RecordIteration(track, processed, "unmixed", "unchecked", -1)
       ELSE IF StereoUnderrun(mix)
       THEN /\ UnderrunStep(nsource, processed, track)
            /\ RecordIteration(track, processed, mix, "unchecked", -1)
       ELSE /\ QueueStep(nsource, processed)
            /\ RecordIteration(track, processed, mix, "unchecked",
                               PlayIssued(nsource))
  /\ IF nsource = OAL_NUM_SOURCES - 1
     THEN loop_pc' = "top" /\ nsource' = 0
     ELSE loop_pc' = "body" /\ nsource' = nsource + 1
  /\ UNCHANGED << use_surround, using_HLE, float32_capable, fixed32_capable >>
  /\ UNCHANGED caller_vars
  /\ UNCHANGED << m_sources, al_gain, al_exists >>
  /\ UNCHANGED dec_vars
  /\ UNCHANGED conv_vars

SurroundIter == SurroundIteration({})

StereoIter == StereoIteration({})

(* The same iterations with the runs of short mixes recorded. *)
SurroundIterTracked == SurroundIteration({"underrun"})

StereoIterTracked == StereoIteration({"underrun"})

(* The same iterations with the mixer's result recorded. *)
SurroundIterMixed == SurroundIteration({"mix"})

StereoIterMixed == StereoIteration({"mix"})

(* The same iterations with the "buffering data" check recorded. *)
SurroundIterFormats == SurroundIteration({"format"})

StereoIterFormats == StereoIteration({"format"})

(* The same iterations with the play command recorded. *)
SurroundIterPlays == SurroundIteration({"play"})

StereoIterPlays == StereoIteration({"play"})

(* The same iterations with what the source reported as processed and     *)
(* what the mixer returned recorded.                                       *)
SurroundIterWaits == SurroundIteration({"wait", "mix"})

StereoIterWaits == StereoIteration({"wait", "mix"})

(* The encoding of the data a surround iteration hands to alBufferData. *)
Encoding ==
  IF float32_capable THEN "Float32"
  ELSE IF fixed32_capable THEN "Int32Fixed"
  ELSE "Int16"

(* A playing source runs through the last buffer queued on it and stops. *)
SourceStarves ==
  /\ \E i \in Sources :
       /\ al_exists[i]
       /\ al_state[i] = "AL_PLAYING"
       /\ al_state' = [al_state EXCEPT ![i] = "AL_STOPPED"]
  /\ UNCHANGED caller_vars
  /\ UNCHANGED loop_locals
  /\ UNCHANGED << m_sources, al_gain, al_queue, al_exists, loop_pc, nsource >>
  /\ UNCHANGED dec_vars
  /\ UNCHANGED conv_vars

LoopThread ==
  \/ ThreadBegin
  \/ ThreadInitSource
  \/ LoopTop
  \/ SurroundIter
  \/ StereoIter

Next ==
  \/ Start
  \/ StopBegin
  \/ StopJoin
  \/ StopJoinThrows
  \/ StopTeardown
  \/ ThreadBegin
  \/ ThreadInitSource
  \/ LoopTop
  \/ SurroundIterTracked
  \/ StereoIterTracked
  \/ SourceStarves

Spec == Init /\ [][Next]_vars

(* The loop with Clear as the caller's other call. *)
MuteNext ==
  \/ Start
  \/ StopBegin
  \/ StopJoin
  \/ StopJoinThrows
  \/ StopTeardown
  \/ Clear
  \/ ThreadBegin
  \/ ThreadInitSource
  \/ LoopTop
  \/ SurroundIter
  \/ StereoIter
  \/ SourceStarves

MuteSpec == Init /\ [][MuteNext]_vars

(* The loop with SetVolume as the caller's other call. *)
VolNext ==
  \/ Start
  \/ StopBegin
  \/ StopJoin
  \/ StopJoinThrows
  \/ StopTeardown
  \/ SetVolume
  \/ ThreadBegin
  \/ ThreadInitSource
  \/ LoopTop
  \/ SurroundIter
  \/ StereoIter
  \/ SourceStarves

VolSpec == Init /\ [][VolNext]_vars

(* The same with the set-up loop taken in steps. *)
InitNext ==
  \/ Start
  \/ StopBegin
  \/ StopJoin
  \/ StopJoinThrows
  \/ StopTeardown
  \/ SetVolume
  \/ ThreadBegin
  \/ InitGenSource
  \/ InitReadVolume
  \/ InitSetGain
  \/ LoopTop
  \/ SurroundIter
  \/ StereoIter

InitSpec == Init /\ [][InitNext]_vars

(* Start, Stop and the loop.  Both threads are scheduled: a step of        *)
(* SoundLoop that can be taken is taken, and so is the return from join.   *)
FairNext ==
  \/ Start
  \/ StopBegin
  \/ StopJoin
  \/ StopJoinThrows
  \/ StopTeardown
  \/ ThreadBegin
  \/ ThreadInitSource
  \/ LoopTop
  \/ SurroundIter
  \/ StereoIter
  \/ SourceStarves

FairSpec ==
  /\ Init
  /\ [][FairNext]_vars
  /\ WF_vars(LoopThread)
  /\ WF_vars(StopJoin)

(* The loop with what the mixer returned recorded. *)
MixNext ==
  \/ Start
  \/ StopBegin
  \/ StopJoin
  \/ StopJoinThrows
  \/ StopTeardown
  \/ ThreadBegin
  \/ ThreadInitSource
  \/ LoopTop
  \/ SurroundIterMixed
  \/ StereoIterMixed
  \/ SourceStarves

MixSpec == Init /\ [][MixNext]_vars

(* The loop with the wait for a free buffer recorded. *)
WaitNext ==
  \/ Start
  \/ StopBegin
  \/ StopJoin
  \/ StopJoinThrows
  \/ StopTeardown
  \/ ThreadBegin
  \/ ThreadInitSource
  \/ LoopTop
  \/ SurroundIterWaits
  \/ StereoIterWaits
  \/ SourceStarves

WaitSpec == Init /\ [][WaitNext]_vars

(* The loop with the format capabilities and the "buffering data" check    *)
(* recorded.                                                               *)
FormatNext ==
  \/ Start
  \/ StopBegin
  \/ StopJoin
  \/ StopJoinThrows
  \/ StopTeardown
  \/ ThreadBeginFormats
  \/ ThreadInitSource
  \/ LoopTop
  \/ SurroundIterFormats
  \/ StereoIterFormats
  \/ SourceStarves

FormatSpec == Init /\ [][FormatNext]_vars

(* The loop with the play command recorded. *)
PlayNext ==
  \/ Start
  \/ StopBegin
  \/ StopJoin
  \/ StopJoinThrows
  \/ StopTeardown
  \/ ThreadBegin
  \/ ThreadInitSource
  \/ LoopTop
  \/ SurroundIterPlays
  \/ StereoIterPlays
  \/ SourceStarves

PlaySpec == Init /\ [][PlayNext]_vars

(***************************************************************************)
(* The surround decoder's FIFO.                                            *)
(***************************************************************************)

(* Variant: the shortfall is rounded down to whole blocks. *)
QueryFramesNeededForSurroundOutput_rounddown(size, frames, block) ==
  IF size < frames * SURROUND_CHANNELS
  THEN LET frames_needed == frames - (size \div SURROUND_CHANNELS)
       IN  frames_needed - (frames_needed % block)
  ELSE 0

(* QueryFramesNeededForSurroundOutput(): the value returned with size      *)
(* samples in the FIFO and blocks of block frames.                         *)
QueryFramesNeededForSurroundOutput(size, frames, block) ==
  IF size < frames * SURROUND_CHANNELS
  THEN LET frames_needed == frames - (size \div SURROUND_CHANNELS)
       IN  frames_needed + block - (frames_needed % block)
  ELSE 0

(* PutFrames(): the blocks decoded for frames_in frames; the loop runs     *)
(* while remaining_frames > 0 and takes a whole block each time.           *)
BlocksDecoded(frames_in, block) ==
  (frames_in + block - 1) \div block

(* PutFrames(): the FIFO's size afterwards. *)
SizeAfterPutFrames(size, frames_in, block) ==
  size + BlocksDecoded(frames_in, block) * block * SURROUND_CHANNELS

(* ReceiveFrames() pops num_frames_out * SURROUND_CHANNELS samples. *)
Underflows(size, num_frames_out) == size < num_frames_out * SURROUND_CHANNELS

(* The sizes the FIFO can report once it was popped while empty. *)
SizesAfterUnderflow == {f * SURROUND_CHANNELS : f \in 0 .. MaxFifoFrames}

(* SurroundDecoder(sample_rate, frame_block_size) *)
Construct ==
  /\ dec_pc = "unbuilt"
  /\ \E frame_block_size \in BlockSizes :
       m_frame_block_size' = frame_block_size
  /\ dec_pc' = "idle"
  /\ UNCHANGED << m_decoded_fifo, output_frames, frames_returned,
                  fifo_underflow >>
  /\ UNCHANGED stream_vars
  /\ UNCHANGED conv_vars
  /\ UNCHANGED put_vars
  /\ UNCHANGED remap_vars
  /\ UNCHANGED << fs_state, clears_in_row >>

(* Variant: the channels are pushed in the decoder's own order. *)
PushOrder_decoderorder == << 0, 1, 2, 3, 4, 5 >>

(* Variant: centre and right are pushed as the decoder has them. *)
PushOrder_centrefirst == << 0, 1, 2, 5, 3, 4 >>

(* The order in which PutFrames() pushes the channels of a decoded frame,  *)
(* by their index in the decoder's output.                                 *)
PushOrder == << 0, 2, 1, 5, 3, 4 >>

(* Where each speaker sits in an output frame: FL | FR | FC | LFE | BL | BR. *)
TargetPosition == [FL |-> 0, FR |-> 1, FC |-> 2, LFE |-> 3, BL |-> 4, BR |-> 5]

(* The samples PutFrames() pushes for count frames, the first of them      *)
(* frame number first: frame by frame, each in push order.                 *)
PushedSamples(first, count) ==
  [x \in 1 .. (count * SURROUND_CHANNELS) |->
     << first + ((x - 1) \div SURROUND_CHANNELS),
        PushOrder[((x - 1) % SURROUND_CHANNELS) + 1] >>]

(* PutFrames(frames): every decode() leaves history in m_fsdecoder. *)
DecoderAfterPut(frames) ==
  /\ fs_state' =
       IF BlocksDecoded(frames, m_frame_block_size) > 0 THEN "primed" ELSE fs_state
  /\ clears_in_row' = 0

(* A call that does not touch m_fsdecoder. *)
DecoderKept == clears_in_row' = 0 /\ UNCHANGED fs_state

(* Variant: Clear() flushes the decoder and leaves the FIFO as it is. *)
SizeAfterClear_kept(size) == size

(* Clear(): the FIFO's size afterwards. *)
SizeAfterClear(size) == 0

(* PutFrames(frames): the samples are pushed on the FIFO. *)
RecordPut(frames, track) ==
  IF track
  THEN LET count == BlocksDecoded(frames, m_frame_block_size) * m_frame_block_size
       IN  /\ frames_decoded + count <= MaxDecodedFrames
           /\ fifo_samples' = fifo_samples \o PushedSamples(frames_decoded, count)
           /\ frames_decoded' = frames_decoded + count
           /\ UNCHANGED << frames_consumed, received >>
  ELSE UNCHANGED remap_vars

(* ReceiveFrames(frames): the oldest samples are popped into out.  What a  *)
(* pop on an empty FIFO reads is not recorded.                             *)
RecordReceive(frames, track) ==
  IF track /\ ~Underflows(m_decoded_fifo, frames)
  THEN /\ received' = SubSeq(fifo_samples, 1, frames * SURROUND_CHANNELS)
       /\ fifo_samples' =
            SubSeq(fifo_samples, frames * SURROUND_CHANNELS + 1, Len(fifo_samples))
       /\ frames_consumed' = frames_consumed + frames
       /\ UNCHANGED frames_decoded
  ELSE IF track
  THEN /\ received' = << >>
       /\ fifo_samples' = << >>
       /\ frames_consumed' = frames_decoded
       /\ UNCHANGED frames_decoded
  ELSE UNCHANGED remap_vars

(* Clear(): the samples in the FIFO are dropped. *)
RecordClear(track) ==
  IF track
  THEN /\ fifo_samples' = << >>
       /\ frames_consumed' = frames_decoded
       /\ UNCHANGED << frames_decoded, received >>
  ELSE UNCHANGED remap_vars

(* SurroundDecoder::Clear() *)
ClearStep(track) ==
  /\ dec_pc = "idle"
  /\ m_decoded_fifo' = SizeAfterClear(m_decoded_fifo)
  /\ fs_state' = "flushed"
  /\ clears_in_row' = IF clears_in_row < 2 THEN clears_in_row + 1 ELSE 2
  /\ RecordClear(track)
  /\ UNCHANGED << dec_pc, m_frame_block_size, output_frames, frames_returned,
                  fifo_underflow >>
  /\ UNCHANGED stream_vars
  /\ UNCHANGED conv_vars
  /\ UNCHANGED put_vars

DecoderClear == ClearStep(FALSE)

(* PutFrames() outside a request, with any number of frames. *)
PutFramesFree ==
  /\ dec_pc = "idle"
  /\ \E frames \in 0 .. MaxOutputFrames :
       /\ SizeAfterPutFrames(m_decoded_fifo, frames, m_frame_block_size)
            <= MaxFifoFrames * SURROUND_CHANNELS
       /\ m_decoded_fifo' =
            SizeAfterPutFrames(m_decoded_fifo, frames, m_frame_block_size)
       /\ num_frames_in' = frames
       /\ decode_calls' = BlocksDecoded(frames, m_frame_block_size)
       /\ DecoderAfterPut(frames)
  /\ UNCHANGED << dec_pc, m_frame_block_size, output_frames, frames_returned,
                  fifo_underflow >>
  /\ UNCHANGED remap_vars
  /\ UNCHANGED stream_vars
  /\ UNCHANGED conv_vars

(* A request begins: the user asks how many frames to supply. *)
Query ==
  /\ dec_pc = "idle"
  /\ \E frames \in 0 .. MaxOutputFrames :
       /\ output_frames' = frames
       /\ frames_returned' =
            QueryFramesNeededForSurroundOutput(m_decoded_fifo, frames,
                                               m_frame_block_size)
  /\ dec_pc' = "queried"
  /\ UNCHANGED << m_frame_block_size, m_decoded_fifo, fifo_underflow >>
  /\ UNCHANGED remap_vars
  /\ UNCHANGED stream_vars
  /\ UNCHANGED conv_vars
  /\ UNCHANGED put_vars
  /\ DecoderKept

(* The user supplies exactly the frames the query returned. *)
PutFramesStep(track) ==
  /\ dec_pc = "queried"
  /\ m_decoded_fifo' =
       SizeAfterPutFrames(m_decoded_fifo, frames_returned, m_frame_block_size)
  /\ num_frames_in' = frames_returned
  /\ decode_calls' = BlocksDecoded(frames_returned, m_frame_block_size)
  /\ RecordPut(frames_returned, track)
  /\ dec_pc' = "put"
  /\ UNCHANGED << m_frame_block_size, output_frames, frames_returned,
                  fifo_underflow >>
  /\ UNCHANGED stream_vars
  /\ UNCHANGED conv_vars
  /\ DecoderAfterPut(frames_returned)

PutFrames == PutFramesStep(FALSE)

(* The user takes the frames asked for. *)
ReceiveFramesStep(track) ==
  /\ dec_pc = "put"
  /\ IF Underflows(m_decoded_fifo, output_frames)
     THEN /\ fifo_underflow' = TRUE
          /\ m_decoded_fifo' \in SizesAfterUnderflow
     ELSE /\ m_decoded_fifo' = m_decoded_fifo - output_frames * SURROUND_CHANNELS
          /\ UNCHANGED fifo_underflow
  /\ RecordReceive(output_frames, track)
  /\ dec_pc' = "idle"
  /\ UNCHANGED << m_frame_block_size, output_frames, frames_returned >>
  /\ UNCHANGED stream_vars
  /\ UNCHANGED conv_vars
  /\ UNCHANGED put_vars
  /\ DecoderKept

ReceiveFrames == ReceiveFramesStep(FALSE)

(* The same operations with the samples recorded. *)
DecoderClearRecorded == ClearStep(TRUE)

PutFramesRecorded == PutFramesStep(TRUE)

ReceiveFramesRecorded == ReceiveFramesStep(TRUE)

DecNext ==
  \/ Construct
  \/ DecoderClear
  \/ PutFramesFree
  \/ Query
  \/ PutFrames
  \/ ReceiveFrames

DecSpec == Init /\ [][DecNext]_vars

(* The protocol with the samples recorded. *)
RemapNext ==
  \/ Construct
  \/ DecoderClearRecorded
  \/ Query
  \/ PutFramesRecorded
  \/ ReceiveFramesRecorded

RemapSpec == Init /\ [][RemapNext]_vars

(* A decoder constructed with a block size of the order a stream uses. *)
ConstructForStream ==
  /\ dec_pc = "unbuilt"
  /\ \E frame_block_size \in StreamBlockSizes :
       m_frame_block_size' = frame_block_size
  /\ dec_pc' = "idle"
  /\ UNCHANGED << m_decoded_fifo, output_frames, frames_returned,
                  fifo_underflow >>
  /\ UNCHANGED put_vars
  /\ UNCHANGED stream_vars
  /\ UNCHANGED conv_vars
  /\ UNCHANGED remap_vars
  /\ UNCHANGED << fs_state, clears_in_row >>

(* A request of a size of the order a stream makes. *)
QueryForStream ==
  /\ dec_pc = "idle"
  /\ \E frames \in StreamRequests :
       /\ output_frames' = frames
       /\ frames_returned' =
            QueryFramesNeededForSurroundOutput(m_decoded_fifo, frames,
                                               m_frame_block_size)
  /\ dec_pc' = "queried"
  /\ UNCHANGED << m_frame_block_size, m_decoded_fifo, fifo_underflow >>
  /\ UNCHANGED put_vars
  /\ UNCHANGED stream_vars
  /\ UNCHANGED conv_vars
  /\ UNCHANGED remap_vars
  /\ DecoderKept

(* The decoder used by the protocol alone, at stream sizes. *)
CapNext ==
  \/ ConstructForStream
  \/ DecoderClear
  \/ QueryForStream
  \/ PutFrames
  \/ ReceiveFrames

CapSpec == Init /\ [][CapNext]_vars

(***************************************************************************)
(* The conversion of a surround sample to 16 bits.                         *)
(***************************************************************************)

(* static_cast<int> of a float: the fraction is dropped, towards 0. *)
Truncated(x) ==
  IF x >= 0 THEN x \div SampleUnit ELSE -((-x) \div SampleUnit)

(* An int stored in a short keeps its low 16 bits. *)
Narrowed(n) == ((n - SHRT_MIN) % 65536) + SHRT_MIN

(* Variant: the sample is narrowed without the two comparisons. *)
FloatToShort_unclamped(x) == Narrowed(Truncated(x))

(* The 16-bit sample made from dpl2[i] * (1 << 15). *)
FloatToShort(x) ==
  IF x > SHRT_MAX * SampleUnit THEN SHRT_MAX
  ELSE IF x < SHRT_MIN * SampleUnit THEN SHRT_MIN
  ELSE Narrowed(Truncated(x))

(* The mix delivers a sample and the loop multiplies it by 1 << 15. *)
ScaleSample ==
  /\ conv_pc \in {"idle", "converted"}
  /\ dpl2' \in ScaledSamples
  /\ conv_pc' = "mixed"
  /\ UNCHANGED surround_short
  /\ UNCHANGED frame_vars
  /\ UNCHANGED rate_vars
  /\ UNCHANGED init_vars
  /\ UNCHANGED stream_vars
  /\ UNCHANGED dec_vars

(* The sample is clamped and stored in surround_short. *)
ConvertSample ==
  /\ conv_pc = "mixed"
  /\ surround_short' = FloatToShort(dpl2)
  /\ conv_pc' = "converted"
  /\ UNCHANGED dpl2
  /\ UNCHANGED frame_vars
  /\ UNCHANGED rate_vars
  /\ UNCHANGED init_vars
  /\ UNCHANGED stream_vars
  /\ UNCHANGED dec_vars

ConvNext ==
  \/ ScaleSample
  \/ ConvertSample

ConvSpec == Init /\ [][ConvNext]_vars

(***************************************************************************)
(* The filling of a surround buffer: mix, zero the subwoofer, convert.     *)
(***************************************************************************)

Frames(buf) == Len(buf) \div SURROUND_CHANNELS

(* Variant: the sample zeroed is the one at the subwoofer's index in the  *)
(* decoder's own order.                                                    *)
LfeZeroed_decoderorder(buf) ==
  [k \in 1 .. Len(buf) |->
     IF (k - 1) % SURROUND_CHANNELS = 5 THEN 0 ELSE buf[k]]

(* dpl2 after the loop that sets dpl2[i * SURROUND_CHANNELS + 3] to 0 for  *)
(* every rendered frame i.                                                 *)
LfeZeroed(buf) ==
  [k \in 1 .. Len(buf) |->
     IF \E i \in 0 .. (Frames(buf) - 1) : k - 1 = i * SURROUND_CHANNELS + 3
     THEN 0 ELSE buf[k]]

(* The int made from dpl2[i] * (1 << 31).  INT_MAX is compared as the     *)
(* float 2^31, so what is clamped is what exceeds 1.0.                     *)
FloatToFixed32(x) ==
  IF x > 32768 * SampleUnit THEN INT_MAX
  ELSE IF x <= -32768 * SampleUnit THEN INT_MIN
  ELSE Truncated(x * 65536)

(* What alBufferData is handed for a sample of dpl2 in each encoding: the  *)
(* float itself, or the integer made from it.                              *)
Encoded(x) ==
  IF Encoding = "Float32" THEN x
  ELSE IF Encoding = "Int32Fixed" THEN FloatToFixed32(x)
  ELSE FloatToShort(x)

(* The two format capabilities are read, once. *)
ReadFormats ==
  /\ mix_pc = "start"
  /\ \E float32 \in BOOLEAN, fixed32 \in BOOLEAN :
       /\ float32_capable' = float32
       /\ fixed32_capable' = fixed32
  /\ mix_pc' = "idle"
  /\ UNCHANGED << dpl2_frames, buffer_data >>
  /\ UNCHANGED << conv_pc, dpl2, surround_short >>
  /\ UNCHANGED init_vars
  /\ UNCHANGED rate_vars
  /\ UNCHANGED << use_surround, using_HLE, next_buffer, num_buffers_queued,
                  underrun_start, rendered, buffering_error, played,
                  num_buffers_processed >>
  /\ UNCHANGED caller_vars
  /\ UNCHANGED << m_sources, al_gain, al_state, al_queue, al_exists, loop_pc,
                  nsource >>
  /\ UNCHANGED dec_vars

(* MixSurround() renders the frames asked for into dpl2. *)
MixSurroundFrames ==
  /\ mix_pc = "idle"
  /\ \E rendered_frames \in 1 .. MaxMixFrames :
       \E lfe \in [0 .. (rendered_frames - 1) -> LfeSamples],
          other \in [(0 .. (rendered_frames - 1)) \X {0, 1, 2, 4, 5} ->
                       OtherSamples] :
         dpl2_frames' =
           [k \in 1 .. (rendered_frames * SURROUND_CHANNELS) |->
              LET i == (k - 1) \div SURROUND_CHANNELS
                  c == (k - 1) % SURROUND_CHANNELS
              IN  IF c = 3 THEN lfe[i] ELSE other[<< i, c >>]]
  /\ mix_pc' = "mixed"
  /\ UNCHANGED buffer_data
  /\ UNCHANGED << conv_pc, dpl2, surround_short >>
  /\ UNCHANGED init_vars
  /\ UNCHANGED rate_vars
  /\ UNCHANGED stream_vars
  /\ UNCHANGED dec_vars

(* The subwoofer channel of every rendered frame is set to 0.0f. *)
ZeroLfe ==
  /\ mix_pc = "mixed"
  /\ dpl2_frames' = LfeZeroed(dpl2_frames)
  /\ mix_pc' = "zeroed"
  /\ UNCHANGED buffer_data
  /\ UNCHANGED << conv_pc, dpl2, surround_short >>
  /\ UNCHANGED init_vars
  /\ UNCHANGED rate_vars
  /\ UNCHANGED stream_vars
  /\ UNCHANGED dec_vars

(* The rendered frames are converted to the encoding in use and handed to  *)
(* alBufferData.                                                           *)
BufferData ==
  /\ mix_pc = "zeroed"
  /\ buffer_data' = [k \in 1 .. Len(dpl2_frames) |-> Encoded(dpl2_frames[k])]
  /\ mix_pc' = "handed"
  /\ UNCHANGED dpl2_frames
  /\ UNCHANGED << conv_pc, dpl2, surround_short >>
  /\ UNCHANGED init_vars
  /\ UNCHANGED rate_vars
  /\ UNCHANGED stream_vars
  /\ UNCHANGED dec_vars

(* The iteration ends and its arrays, dpl2 and the converted copy, go out  *)
(* of scope.                                                               *)
EndIteration ==
  /\ mix_pc = "handed"
  /\ dpl2_frames' = << >>
  /\ buffer_data' = << >>
  /\ mix_pc' = "idle"
  /\ UNCHANGED << conv_pc, dpl2, surround_short >>
  /\ UNCHANGED init_vars
  /\ UNCHANGED rate_vars
  /\ UNCHANGED stream_vars
  /\ UNCHANGED dec_vars

LfeNext ==
  \/ ReadFormats
  \/ MixSurroundFrames
  \/ ZeroLfe
  \/ BufferData
  \/ EndIteration

LfeSpec == Init /\ [][LfeNext]_vars

(***************************************************************************)
(* The frames asked of the mixer for one buffer.                           *)
(***************************************************************************)

(* Latency in samples per buffer, as written: left to right, in integers. *)
LatencyFrames(rate, latency) == ((rate \div 1000) * latency) \div OAL_BUFFERS

(* frames_per_buffer[i] as the set-up loop computes it. *)
FramesAtSetup(i, rate, latency, surround) ==
  LET asked == IF latency > 0 THEN LatencyFrames(rate, latency)
               ELSE LatencyFrames(rate, 1)
      capped == IF asked > OAL_MAX_FRAMES THEN OAL_MAX_FRAMES ELSE asked
  IN  IF surround /\ capped < MinSurroundFrames /\ i # 2
      THEN MinSurroundFrames ELSE capped

(* frames_per_buffer[nsource] as the stereo branch computes it again when *)
(* the mixer's rate for the source has changed.                            *)
FramesAfterChange(rate, latency) ==
  IF latency > 10 THEN LatencyFrames(rate, latency)
  ELSE LatencyFrames(rate, 1)

(* SoundLoop before its loop: the configuration and the mixer's three      *)
(* rates are read and frames_per_buffer is computed for every source.      *)
SetupFrames ==
  /\ fpb_pc = "unset"
  /\ \E latency \in Latencies, rates \in [Sources -> Rates],
        surround \in BOOLEAN :
       /\ iLatency' = latency
       /\ frequency' = rates
       /\ use_surround' = surround
       /\ frames_per_buffer' =
            [i \in Sources |-> FramesAtSetup(i, rates[i], latency, surround)]
  /\ fpb_pc' = "set"
  /\ UNCHANGED << conv_pc, dpl2, surround_short >>
  /\ UNCHANGED init_vars
  /\ UNCHANGED frame_vars
  /\ UNCHANGED << using_HLE, next_buffer, num_buffers_queued, underrun_start,
                  rendered, buffering_error, played, num_buffers_processed,
                  float32_capable, fixed32_capable >>
  /\ UNCHANGED caller_vars
  /\ UNCHANGED << m_sources, al_gain, al_state, al_queue, al_exists, loop_pc,
                  nsource >>
  /\ UNCHANGED dec_vars

(* A surround iteration finds 5.1 refused and falls back to stereo. *)
FallBackToStereo ==
  /\ fpb_pc = "set"
  /\ use_surround
  /\ use_surround' = FALSE
  /\ UNCHANGED rate_vars
  /\ UNCHANGED << conv_pc, dpl2, surround_short >>
  /\ UNCHANGED init_vars
  /\ UNCHANGED frame_vars
  /\ UNCHANGED << using_HLE, next_buffer, num_buffers_queued, underrun_start,
                  rendered, buffering_error, played, num_buffers_processed,
                  float32_capable, fixed32_capable >>
  /\ UNCHANGED caller_vars
  /\ UNCHANGED << m_sources, al_gain, al_state, al_queue, al_exists, loop_pc,
                  nsource >>
  /\ UNCHANGED dec_vars

(* A pass of the stereo loop finds the mixer's rate for its source is not  *)
(* the one stored: the rate is stored and frames_per_buffer computed       *)
(* again.                                                                  *)
RateChanged ==
  /\ fpb_pc = "set"
  /\ ~use_surround
  /\ \E i \in Sources, rate \in Rates :
       /\ rate # frequency[i]
       /\ frequency' = [frequency EXCEPT ![i] = rate]
       /\ frames_per_buffer' =
            [frames_per_buffer EXCEPT ![i] = FramesAfterChange(rate, iLatency)]
  /\ UNCHANGED << fpb_pc, iLatency >>
  /\ UNCHANGED << conv_pc, dpl2, surround_short >>
  /\ UNCHANGED init_vars
  /\ UNCHANGED frame_vars
  /\ UNCHANGED stream_vars
  /\ UNCHANGED dec_vars

RateNext ==
  \/ SetupFrames
  \/ FallBackToStereo
  \/ RateChanged

RateSpec == Init /\ [][RateNext]_vars

(***************************************************************************)
(* Properties.                                                             *)
(***************************************************************************)

NoDuplicates(q) == \A a, b \in 1 .. Len(q) : a # b => q[a] # q[b]

IsSuffix(a, b) == \E k \in 0 .. Len(b) : a = SubSeq(b, k + 1, Len(b))

(* C1: for every source the count of queued buffers stays within           *)
(* 0 .. OAL_BUFFERS, the cursor stays within 0 .. OAL_BUFFERS - 1, and no  *)
(* buffer is on the source's queue twice, so the buffer handed to          *)
(* alSourceQueueBuffers was never one still queued.                        *)
C1_PoolBounded ==
  \A i \in Sources :
    /\ num_buffers_queued[i] \in 0 .. OAL_BUFFERS
    /\ next_buffer[i] \in 0 .. (OAL_BUFFERS - 1)
    /\ NoDuplicates(al_queue[i])

(* Two stereo sources with every buffer queued, the first having wrapped. *)
C1_Witness ==
  /\ ~use_surround
  /\ loop_pc = "body"
  /\ num_buffers_queued[0] = OAL_BUFFERS
  /\ num_buffers_queued[1] = OAL_BUFFERS
  /\ next_buffer[0] = 1
  /\ Len(al_queue[0]) = OAL_BUFFERS

(* C2: once Stop() is waiting in join() on a started thread, the thread    *)
(* leaves the loop and the join returns.                                   *)
C2_StopJoins ==
  (caller_pc = "stop_join" /\ m_thread = "started") ~> (m_thread = "joined")

(* Stop() waits while the loop sits on a full pool. *)
C2_Witness ==
  /\ caller_pc = "stop_join"
  /\ loop_pc = "body"
  /\ use_surround
  /\ num_buffers_queued[0] = OAL_BUFFERS
  /\ al_state[0] = "AL_PLAYING"

(* C3: Stop() on a stream that is not running completes normally and       *)
(* leaves the thread, the sources, the buffers, the context and the device *)
(* as they were.                                                           *)
C3_StopWhenNotRunningIsNoOp ==
  [][(caller_pc = "stop_join" /\ ~Joinable) =>
       /\ caller_pc' # "stop_threw"
       /\ UNCHANGED << m_thread, m_sources, al_gain, al_state, al_queue,
                       al_exists, context_current, device_open >>]_vars

(* C4: after a Start() that failed the run flag is clear, no thread is     *)
(* running, and neither a device nor a context is left open.               *)
C4_FailedStartLeavesNothing ==
  start_result \in {"no_enumeration", "no_device", "no_context"} =>
    /\ ~m_run_thread
    /\ m_thread # "started"
    /\ ~device_open
    /\ ~context_current

(* Start() opened the device and could not create the context. *)
C4_Witness == start_result = "no_context" /\ caller_pc = "idle"

(* C5: the streaming thread leaves its loop only with the run flag clear. *)
C5_LoopLeftOnlyOnStop ==
  [][(loop_pc # "done" /\ loop_pc' = "done") => ~m_run_thread]_vars

(* The loop is still iterating after a mix came up short on a source whose *)
(* pool has buffers queued.                                                *)
C5_Witness ==
  /\ m_run_thread
  /\ loop_pc = "body"
  /\ \E i \in Sources : underrun_start[i] >= 0 /\ num_buffers_queued[i] > 0

(* C6: through a run of iterations whose mix came up empty the cursor      *)
(* stays where it was when the run began and nothing is queued; the first  *)
(* buffer queued afterwards is the one that cursor named.                  *)
C6_UnderrunKeepsCursor ==
  [][\A i \in Sources :
       /\ underrun_start'[i] >= 0 =>
            /\ next_buffer'[i] = underrun_start'[i]
            /\ IsSuffix(al_queue'[i], al_queue[i])
       /\ (underrun_start[i] >= 0 /\ underrun_start'[i] = -1
             /\ loop_pc' # "done") =>
            \/ al_queue'[i] = << >>
            \/ al_queue'[i][Len(al_queue'[i])] = underrun_start[i]]_vars

(* A run of empty mixes in progress, cursor past the first buffer, with    *)
(* buffers still queued.                                                   *)
C6_Witness ==
  \E i \in Sources :
    /\ underrun_start[i] > 0
    /\ num_buffers_queued[i] > 0
    /\ loop_pc = "body"

(* The gain a queued buffer is played with is its source's AL_GAIN. *)
BufferGain(i) == al_gain[i]

(* C7: a volume change does not change the gain of the buffers that stay   *)
(* queued on a playing source.                                             *)
C7_QueuedGainUnchanged ==
  [][\A i \in Sources :
       (/\ al_state[i] = "AL_PLAYING"
        /\ al_queue[i] # << >>
        /\ al_queue'[i] = al_queue[i]
        /\ al_exists'[i]) =>
         BufferGain(i)' = BufferGain(i)]_vars

(* C7 as the code has it: a volume change sets the gain of every source    *)
(* that exists at once, whatever is queued on it, and queueing or          *)
(* unqueueing a buffer changes no gain.                                    *)
C7_VolumeSetsSourceGain ==
  [][\A i \in Sources :
       /\ (m_volume' # m_volume /\ m_sources[i] # 0) =>
            BufferGain(i)' = m_volume'
       /\ (al_queue'[i] # al_queue[i] /\ al_exists'[i]) =>
            BufferGain(i)' = BufferGain(i)]_vars

(* The volume was changed while a source plays with buffers queued. *)
C7_Witness ==
  \E i \in Sources :
    /\ al_state[i] = "AL_PLAYING"
    /\ Len(al_queue[i]) >= 2
    /\ m_volume = 50
    /\ al_gain[i] = 50

(* C8: from a Clear(true) that stopped playback until the next Clear() or  *)
(* the teardown, no stopped source goes back into the playing state, and   *)
(* Clear() deletes no source or buffer.                                    *)
C8_MuteHolds ==
  [][/\ (mute_stopped /\ mute_stopped') =>
          \A i \in Sources :
            al_state[i] = "AL_STOPPED" => al_state'[i] # "AL_PLAYING"
     /\ (m_muted' # m_muted) => UNCHANGED << m_sources, al_exists, al_queue >>
    ]_vars

(* The smallest multiple of block that is at least frames. *)
SmallestMultipleAtLeast(frames, block) ==
  CHOOSE m \in 0 .. (frames + block) :
    /\ m % block = 0
    /\ m >= frames
    /\ \A k \in 0 .. (frames + block) : (k % block = 0 /\ k >= frames) => m <= k

(* C9: the query returns 0 when the FIFO holds the samples asked for, and  *)
(* otherwise the smallest multiple of the block size that is at least the  *)
(* frames asked for less the frames in the FIFO.                           *)
C9_QueryReturnsSmallestMultiple ==
  dec_pc = "queried" =>
    frames_returned =
      IF m_decoded_fifo >= output_frames * SURROUND_CHANNELS
      THEN 0
      ELSE SmallestMultipleAtLeast(
             output_frames - (m_decoded_fifo \div SURROUND_CHANNELS),
             m_frame_block_size)

(* C10: in a request (query, PutFrames of the frames returned,             *)
(* ReceiveFrames) the FIFO holds the samples asked for when ReceiveFrames  *)
(* starts, and no pop has found the FIFO empty.                            *)
C10_RequestNeverUnderflows ==
  /\ dec_pc = "put" => ~Underflows(m_decoded_fifo, output_frames)
  /\ ~fifo_underflow

(* A request that had to supply frames has been served and left frames in  *)
(* the FIFO, with blocks of more than one frame.                           *)
C10_Witness ==
  /\ dec_pc = "idle"
  /\ m_frame_block_size > 1
  /\ output_frames > m_frame_block_size
  /\ frames_returned > 0
  /\ m_decoded_fifo > 0
  /\ ~fifo_underflow

(* The input frames the last PutFrames() read: a whole block per call. *)
FramesRead == decode_calls * m_frame_block_size

(* C11: PutFrames(in, num_frames_in) makes floor(num_frames_in / block)    *)
(* decode calls and reads no input frame beyond the num_frames_in it was   *)
(* given.                                                                  *)
C11_PutFramesDecodesWholeBlocks ==
  dec_pc # "unbuilt" =>
    /\ decode_calls = num_frames_in \div m_frame_block_size
    /\ FramesRead <= num_frames_in

(* C12: under the protocol (query, PutFrames of the frames returned,       *)
(* ReceiveFrames) the FIFO never holds more samples than it has room for.  *)
C12_FifoWithinCapacity == m_decoded_fifo <= FifoCapacity

(* C13: ReceiveFrames() yields the frames in the order they were decoded,  *)
(* starting with the oldest not yet taken or cleared, none left out or     *)
(* repeated, each as (d0, d2, d1, d5, d3, d4) of its decoder-order         *)
(* channels (d0, .., d5).                                                  *)
C13_FramesRemappedInOrder ==
  [][(dec_pc = "put" /\ dec_pc' = "idle") =>
       /\ Len(received') = output_frames * SURROUND_CHANNELS
       /\ \A j \in 0 .. (output_frames - 1) :
            LET frame == [k \in 1 .. SURROUND_CHANNELS |->
                           received'[j * SURROUND_CHANNELS + k]]
                d == [c \in 0 .. (SURROUND_CHANNELS - 1) |->
                        << frames_consumed + j, c >>]
            IN  frame = << d[0], d[2], d[1], d[5], d[3], d[4] >>]_vars

(* A second request has been served with several frames and has left       *)
(* frames in the FIFO.                                                     *)
C13_Witness ==
  /\ dec_pc = "idle"
  /\ Len(received) >= 2 * SURROUND_CHANNELS
  /\ frames_consumed > Len(received) \div SURROUND_CHANNELS
  /\ fifo_samples # << >>
  /\ received[1][1] > 0

(* Synthetic decoder output: 1.0 in channel 0, 2.0 in channel 2, silence   *)
(* in the other channels.                                                  *)
SyntheticValue(sample) ==
  IF sample[2] = 0 THEN 1 ELSE IF sample[2] = 2 THEN 2 ELSE 0

(* The value at a speaker's position in frame j of the output. *)
OutputValue(j, position) ==
  SyntheticValue(received[j * SURROUND_CHANNELS + position + 1])

ReceivedFrames == 0 .. ((Len(received) \div SURROUND_CHANNELS) - 1)

(* C14: with 1.0 in decoder channel 0 and 2.0 in decoder channel 2, the    *)
(* output has 1.0 in Front-Left and 2.0 in Front-Center.                   *)
C14_ChannelTwoInFrontCentre ==
  \A j \in ReceivedFrames :
    /\ OutputValue(j, TargetPosition.FL) = 1
    /\ OutputValue(j, TargetPosition.FC) = 2

(* C14 as the code has it: the output has 1.0 in Front-Left and 2.0 in     *)
(* Front-Right; Front-Center takes decoder channel 1.                      *)
C14_ChannelTwoInFrontRight ==
  \A j \in ReceivedFrames :
    /\ OutputValue(j, TargetPosition.FL) = 1
    /\ OutputValue(j, TargetPosition.FR) = 2
    /\ OutputValue(j, TargetPosition.FC) = 0

(* Frames have been received from a decoder with blocks of several frames. *)
C14_Witness ==
  /\ ReceivedFrames # {}
  /\ m_frame_block_size > 1
  /\ dec_pc = "idle"

(* The whole number nearest 0 that x SampleUnit-ths reach. *)
TowardsZero(x) ==
  CHOOSE n \in -(4 * 32768) .. (4 * 32768) :
    /\ (x >= 0 => n * SampleUnit <= x /\ x < (n + 1) * SampleUnit)
    /\ (x < 0 => n * SampleUnit >= x /\ x > (n - 1) * SampleUnit)

Clamped(n) ==
  IF n > 32767 THEN 32767 ELSE IF n < -32768 THEN -32768 ELSE n

(* C15: the 16-bit sample is the float sample times 32768, truncated and   *)
(* clamped to -32768 .. 32767; 2.5 gives 32767 and -3.0 gives -32768.      *)
C15_FloatToShortSaturates ==
  conv_pc = "converted" =>
    /\ surround_short = Clamped(TowardsZero(dpl2))
    /\ (dpl2 = 5 * 16384 * SampleUnit) => surround_short = 32767
    /\ (dpl2 = -3 * 32768 * SampleUnit) => surround_short = -32768

(* -3.0 has been converted. *)
C15_Witness ==
  /\ conv_pc = "converted"
  /\ dpl2 = -3 * 32768 * SampleUnit
  /\ surround_short = SHRT_MIN

(* C16: from the first test of the loop condition until the loop is left,  *)
(* the layout read at the start of SoundLoop (surround or stereo) is the   *)
(* layout of every iteration.                                              *)
C16_LayoutFixedWhileRunning ==
  [][(loop_pc \in {"top", "body"} /\ loop_pc' \in {"top", "body"}) =>
       use_surround' = use_surround]_vars

(* C17: after a Clear() the FIFO is empty and the decoder flushed, and a   *)
(* Clear() that follows a Clear() changes nothing of the decoder.          *)
C17_ClearTwiceIsClearOnce ==
  [][/\ clears_in_row' >= 1 =>
          /\ m_decoded_fifo' = 0
          /\ fs_state' = "flushed"
     /\ (clears_in_row = 1 /\ clears_in_row' = 2) =>
          UNCHANGED << dec_pc, m_frame_block_size, m_decoded_fifo, fs_state,
                       fifo_samples, fifo_underflow >>]_vars

(* Clear() has been called twice in a row on a decoder that had decoded    *)
(* frames.                                                                 *)
C17_Witness ==
  /\ clears_in_row = 2
  /\ decode_calls > 1
  /\ m_frame_block_size > 1

(* A step of the loop body: one surround iteration, or one pass of the     *)
(* stereo loop over the sources.                                           *)
IterationStep ==
  loop_pc = "body" /\ << loop_pc, nsource >>' # << loop_pc, nsource >>

(* C18: an iteration in which the mixer returned fewer frames than asked   *)
(* for, none or some, queues no buffer and leaves every cursor where it    *)
(* was.                                                                    *)
C18_ShortMixQueuesNothing ==
  [][(IterationStep /\ rendered' \in {"none", "partial"}) =>
       /\ next_buffer' = next_buffer
       /\ \A i \in Sources : IsSuffix(al_queue'[i], al_queue[i])]_vars

(* The next safer encoding: Float32, then Int32Fixed, then Int16. *)
SaferEncoding(e) == IF e = "Float32" THEN "Int32Fixed" ELSE "Int16"

(* C19: an iteration whose alBufferData was rejected for its format leaves *)
(* the encoding one step safer (Float32, Int32Fixed, Int16) for the data   *)
(* it retries and for the iterations after it, the layout as it was.       *)
C19_RejectedEncodingDowngraded ==
  [][(IterationStep /\ buffering_error' = "AL_INVALID_ENUM"
        /\ Encoding # "Int16") =>
       /\ Encoding' = SaferEncoding(Encoding)
       /\ use_surround' = use_surround]_vars

(* The step queued a buffer on source i. *)
QueuedOn(i) == next_buffer'[i] # next_buffer[i] /\ al_queue'[i] # << >>

(* C20: an iteration that queues a buffer on a source the sink reports as  *)
(* not playing issues the play command for that source, and every          *)
(* iteration that queues on a source leaves it playing.                    *)
C20_QueueResumesPlayback ==
  [][\A i \in Sources :
       (IterationStep /\ QueuedOn(i)) =>
         /\ al_state[i] # "AL_PLAYING" => played' = i
         /\ al_state'[i] = "AL_PLAYING"]_vars

(* The stereo pass over source 0 has just queued its second buffer and     *)
(* played the source, which had stopped since its first.                   *)
C20_Witness ==
  /\ ~use_surround
  /\ loop_pc = "body"
  /\ nsource = 1
  /\ played = 0
  /\ next_buffer[0] = 2
  /\ al_queue[0] = << 1 >>
  /\ al_state[0] = "AL_PLAYING"

(* The streaming thread has left SoundLoop. *)
ThreadTerminated == loop_pc = "done" \/ m_thread = "joined"

(* Nothing of the device is left: no source, no current context, no open   *)
(* device.                                                                 *)
TornDown ==
  /\ ~device_open
  /\ ~context_current
  /\ \A i \in Sources : ~al_exists[i]

(* The step deletes a source, releases the context or closes the device. *)
TeardownStep ==
  \/ device_open /\ ~device_open'
  \/ context_current /\ ~context_current'
  \/ \E i \in Sources : al_exists[i] /\ ~al_exists'[i]

(* C21, as stated: on Stop() the device resources are torn down before the *)
(* streaming thread terminates, so a thread that has terminated leaves no  *)
(* source, no current context and no open device.                          *)
C21_TeardownBeforeThreadEnds == ThreadTerminated => TornDown

(* C21, amended: on Stop() the device resources are torn down by the       *)
(* calling thread only after the streaming thread has terminated and has   *)
(* been joined; no source is deleted, no context released and no device    *)
(* closed while the thread is still in SoundLoop.                          *)
C21_TeardownAfterThreadJoined ==
  [][TeardownStep =>
       /\ caller_pc = "stop_teardown"
       /\ m_thread = "joined"
       /\ loop_pc = "idle"
       /\ TornDown']_vars

(* Stop() has returned from a session that Start() had opened: the thread *)
(* has been joined and the teardown has been done.                         *)
C21_Witness ==
  /\ caller_pc = "idle"
  /\ start_result = "ok"
  /\ m_thread = "joined"
  /\ ~m_run_thread
  /\ TornDown

(* The source an iteration is about: source 0 in the surround branch, the  *)
(* source of the pass in the stereo branch.                                *)
IterationSource == IF use_surround THEN 0 ELSE nsource

(* C22: an iteration that finds its source's pool all queued and reads     *)
(* zero processed buffers from the source calls no mixer, queues and       *)
(* unqueues nothing, and leaves the source's queued count, cursor and      *)
(* state as they were.                                                     *)
C22_FullPoolOnlyWaits ==
  [][\A i \in Sources :
       ( /\ IterationStep
         /\ IterationSource = i
         /\ num_buffers_queued[i] = OAL_BUFFERS
         /\ num_buffers_processed' = 0 ) =>
         /\ rendered' = "unmixed"
         /\ al_queue' = al_queue
         /\ al_state' = al_state
         /\ num_buffers_queued' = num_buffers_queued
         /\ next_buffer' = next_buffer]_vars

(* A pass of the stereo loop has just waited on source 1: its pool is all  *)
(* queued, the source plays and reported no buffer processed.              *)
C22_Witness ==
  /\ ~use_surround
  /\ loop_pc = "body"
  /\ nsource = 2
  /\ num_buffers_queued[1] = OAL_BUFFERS
  /\ Len(al_queue[1]) = OAL_BUFFERS
  /\ al_state[1] = "AL_PLAYING"
  /\ num_buffers_processed = 0
  /\ rendered = "unmixed"

(* The samples of buf at the place of the subwoofer in the output order. *)
LfeOf(buf) ==
  { buf[(i * SURROUND_CHANNELS) + TargetPosition.LFE + 1] :
      i \in 0 .. (Frames(buf) - 1) }

(* C23: every frame of surround data handed to alBufferData has 0 in its   *)
(* subwoofer channel, index 3 of the frame, whatever the mix delivered     *)
(* there and whichever of the three encodings the data is handed over in.  *)
C23_LfeHandedOverZero ==
  (mix_pc = "handed") =>
    /\ Len(buffer_data) = Len(dpl2_frames)
    /\ Frames(buffer_data) >= 1
    /\ LfeOf(buffer_data) = {0}

(* Two frames have been handed over as 16-bit samples from a mix whose     *)
(* other channels held samples beyond the range; the subwoofer channel is  *)
(* silent and the channel next to it is not.                               *)
C23_Witness ==
  /\ mix_pc = "handed"
  /\ Encoding = "Int16"
  /\ Frames(buffer_data) = 2
  /\ buffer_data[TargetPosition.LFE + 1] = 0
  /\ buffer_data[TargetPosition.BL + 1] = SHRT_MAX
  /\ buffer_data[SURROUND_CHANNELS + TargetPosition.FC + 1] = SHRT_MAX

(* C24: for every source frames_per_buffer is at most OAL_MAX_FRAMES, at   *)
(* set-up and after every recomputation for a changed sample rate, so the  *)
(* frames mixed into one buffer fit the OAL_MAX_FRAMES-sized arrays.       *)
C24_FramesWithinMaximum ==
  \A i \in Sources : frames_per_buffer[i] <= OAL_MAX_FRAMES

(* The set-up loop has given every source its gain. *)
SetupDone == m_thread = "started" /\ loop_pc \in {"top", "body", "done"}

(* C25: however a SetVolume() call falls between the steps of the set-up   *)
(* of the sources, once the call has returned and the set-up is done every *)
(* source has the gain last set, m_volume.                                 *)
C25_NoStaleGainAfterSetup ==
  (SetupDone /\ caller_pc = "idle") =>
    \A i \in Sources : al_exists[i] => al_gain[i] = m_volume

====
